---- MODULE Spec2Model ----
(***************************************************************************)
(* qancode.py: the fault-tolerant task matrix (DataManager / DataWorker)   *)
(* and the comparison phase that QANCODE.compare_facets and                *)
(* QANCODE.find_differences run on the collected result set.               *)
(***************************************************************************)
EXTENDS Integers, Sequences, FiniteSets, TLC

(* ---------------------------------------------------------------------- *)
(* Bounds of the model.                                                    *)
(* ---------------------------------------------------------------------- *)
MaxUsers == 2
MaxBrowsers == 2
MaxPages == 2
\* users x browsers x pages of one run (each coordinate is run on two urls)
MaxGrid == 2
\* entries (label, count) a captured facet holds at most
MaxEntries == 3
\* rows of pixels a screenshot has at most
MaxRows == 2
\* pixels of one colour, side by side in a row, that one cell of an image
\* of the model stands for
RunLength == 200
\* slices of a stitched screenshot the model keeps; further ones are dropped
MaxSlices == 6
\* facets on one page in the study of get_data's keys
MaxFacets == 3
\* item_types and click_paths a caller passes to _parse_arguments
MaxArguments == 3

(* ---------------------------------------------------------------------- *)
(* Program constants and the values the inputs are drawn from.             *)
(* ---------------------------------------------------------------------- *)
None == "None"

BROWSERS == <<"Chrome", "Firefox", "Safari">>

\* 'Public', a user of USERS, and a user the credential file does not hold.
UserNames == {"Public", "encoded.test@gmail.com", "stranger@example.org"}

\* usernames found in ~/qa_credentials.json
StoredCredentials == {"encoded.test@gmail.com"}

prod_url == "https://encodeproject.org"
rc_url == "https://test.encodedcc.org"

\* urls = [self.prod_url, self.rc_url]
urls == <<prod_url, rc_url>>

\* two adjacent entries of find_differences' actions list
Pages == {"/pipelines/ENCPL220NBH/", "/pipelines/ENCPL272XAE/"}

ClickPaths == {None, "OpenUCSCGenomeBrowserHG19"}

Operations == {"compare_facets", "find_differences"}

\* retry = 5
RetryBudget == 5

Min(a, b) == IF a < b THEN a ELSE b

SeqsUpTo(S, n) == UNION {[1..k -> S] : k \in 1..n}

Distinct(s) == \A i, j \in DOMAIN s : i # j => s[i] # s[j]

UserLists == {s \in SeqsUpTo(UserNames, MaxUsers) : Distinct(s)}

BrowserLists == {SubSeq(BROWSERS, 1, k) : k \in 1..Min(MaxBrowsers, Len(BROWSERS))}

ItemLists == SeqsUpTo(Pages, MaxPages)

\* task=GetFacetNumbers for compare_facets, task=GetScreenShot for find_differences
TaskOf(o) == IF o = "compare_facets" THEN "GetFacetNumbers" ELSE "GetScreenShot"

\* click_paths = [None for c in item_types]
NoClickPaths(items) == [i \in 1..Len(items) |-> None]

\* the click_paths each operation hands to DataManager for item_types
ClickPathLists(o, items) ==
    IF o = "compare_facets"
    THEN {NoClickPaths(items)}
    ELSE {NoClickPaths(items)} \cup
         {[i \in 1..Len(items) |-> c] : c \in ClickPaths}

VARIABLES
    op,             \* the public operation that was called
    users,          \* DataManager.users
    browsers,       \* DataManager.browsers
    item_types,     \* DataManager.item_types
    click_paths,    \* DataManager.click_paths
    ui, bi, li, pi, \* positions of the four nested for loops of run_tasks
    retry,          \* run_tasks' retry counter
    pc,             \* the statement the program is at
    all_data,       \* DataManager.all_data
    warnings,       \* 'WARNING: Task incomplete.' lines, by loop position
    recorded,       \* loop positions whose attempt appended a record
    driver,         \* whether the DataWorker has its driver attribute
    started,        \* browser sessions started in this attempt
    quits,          \* driver.quit() calls in this attempt
    task_completed, \* DataWorker.task_completed
    data,           \* what run_task returns
    exc,            \* the exception raised inside run_task's try block
    attempts,       \* attempts of the coordinate at the current position
    sleeps,         \* time.sleep(2) calls for the current position
    interrupted,    \* a KeyboardInterrupt / SystemExit was raised
    confirmed,      \* the signed-in element was observed in this attempt
    step_error,     \* acquire, sign-in or capture raised an Exception
    quit_error,     \* driver.quit() raised an error other than AttributeError
    propagated,     \* what left run_task as an exception
    ci,             \* position of the comparison loops
    compared        \* the comparisons that ran compare_data to its end

VARIABLES
    shot_one,       \* the image file self.prod_data[0] names
    shot_two,       \* the image file self.rc_data[0] names
    image_one,      \* compute_image_difference's image_one
    image_two,      \* compute_image_difference's image_two
    difference,     \* compute_image_difference's difference
    diff_found,     \* CompareScreenShots.diff_found
    diff_distance_metric, \* CompareScreenShots.diff_distance_metric
    image_pc        \* where compute_image_difference is

VARIABLES
    prod_facets,    \* the mapping self.prod_data[0] of a facet comparison
    rc_facets,      \* the mapping self.rc_data[0] of a facet comparison
    prod_captured,  \* prod_facets as GetFacetNumbers.get_data returned it
    rc_captured,    \* rc_facets as GetFacetNumbers.get_data returned it
    report,         \* the lines compare_data printed
    facet_pc        \* where compare_data is

VARIABLES
    url_comparison, \* compare_facets' argument url_comparison
    facet_records,  \* dm.all_data of compare_facets for one user and page
    captured_records, \* facet_records as run_tasks returned it
    browser_reports, \* what the cross-browser comparisons printed, by url
    cf_error,       \* the exception that ended compare_facets
    cf_i,           \* position of compare_facets' comparison loop
    cf_pc           \* where compare_facets is

engines == <<url_comparison, facet_records, captured_records, browser_reports,
             cf_error, cf_i, cf_pc>>

VARIABLES
    client_height,  \* document.documentElement.clientHeight
    scroll_height,  \* document.body.scrollHeight
    scroll_top,     \* the scroll position of the browser window
    difference_to_keep, \* stitch_image's difference_to_keep, or Unbound
    image_slices,   \* stitch_image's image_slices: the content rows of each
    stitch_pc       \* where stitch_image is

stitching == <<client_height, scroll_height, scroll_top, difference_to_keep,
               image_slices, stitch_pc>>

VARIABLES
    page_titles,    \* get_data: the h5 titles of the page's facets, in order
    data_dict,      \* get_data's data_dict, as a set of <<key, value>> items
    facet_i         \* get_data: the position of the next facet, 0 when idle

titling == <<page_titles, data_dict, facet_i>>

VARIABLES
    parse_args,     \* the arguments of a _parse_arguments call
    parse_result,   \* what the call returned: item_types and click_paths
    parse_pairs,    \* zip(item_types, click_paths) of the returned lists
    parse_pc        \* where the call is

parsing == <<parse_args, parse_result, parse_pairs, parse_pc>>

VARIABLES
    edit_op,        \* check_requests or check_tools
    edit_rc_url,    \* QANCODE.rc_url of the object the check is called on
    edit_env,       \* ~/qa_credentials.json and ~/keypairs.json on the host
    effects,        \* requests sent, files written, subprocesses started
    edit_i,         \* the next request or tool
    edit_pc         \* where the check is

editing == <<edit_op, edit_rc_url, edit_env, effects, edit_i, edit_pc>>

config == <<op, users, browsers, item_types, click_paths>>
position == <<ui, bi, li, pi>>
worker == <<driver, started, quits, task_completed, data, exc, confirmed,
            step_error, quit_error>>
orchestration == <<op, users, browsers, item_types, click_paths, ui, bi, li,
                   pi, retry, pc, all_data, warnings, recorded, driver,
                   started, quits, task_completed, data, exc, attempts, sleeps,
                   interrupted, confirmed, step_error, quit_error, propagated,
                   ci, compared>>
screenshots == <<shot_one, shot_two, image_one, image_two, difference,
                 diff_found, diff_distance_metric, image_pc>>
facets == <<prod_facets, rc_facets, prod_captured, rc_captured, report,
            facet_pc>>
comparators == <<screenshots, facets, engines, stitching, titling, parsing,
                 editing>>
vars == <<orchestration, comparators>>

(* ---------------------------------------------------------------------- *)
(* DataManager.run_tasks                                                   *)
(* ---------------------------------------------------------------------- *)

\* zip(self.item_types, self.click_paths)
Zip(items, clicks) ==
    [i \in 1..Min(Len(items), Len(clicks)) |-> <<items[i], clicks[i]>>]

\* if self.urls[0] == url: server_name = 'prod' else: server_name = 'RC'
ServerName(url) == IF urls[1] = url THEN "prod" ELSE "RC"

\* the record run_tasks appends for the coordinate at the current position
Record(b, l, u, p, d) ==
    [browser |-> browsers[b],
     url |-> urls[l],
     user |-> users[u],
     item_type |-> Zip(item_types, click_paths)[p][1],
     click_path |-> Zip(item_types, click_paths)[p][2],
     data |-> d,
     server_name |-> ServerName(urls[l])]

Coordinate(r) == <<r.browser, r.url, r.user, r.item_type, r.click_path>>

\* the give-up test off by one: a sixth attempt is made
Exhausted_Late(r) == r < 0

\* if retry < 1: the coordinate is given up
Exhausted(r) == r < 1

\* the url loop stopping one short: the last url is never run
NextPosition_SkipsLastUrl(u, b, l, p) ==
    IF p < Len(Zip(item_types, click_paths)) THEN <<u, b, l, p + 1>>
    ELSE IF l + 1 < Len(urls) THEN <<u, b, l + 1, 1>>
    ELSE IF b < Len(browsers) THEN <<u, b + 1, 1, 1>>
    ELSE IF u < Len(users) THEN <<u + 1, 1, 1, 1>>
    ELSE <<0, 0, 0, 0>>

\* the url loop nested inside the page loop
NextPosition_UrlInside(u, b, l, p) ==
    IF l < Len(urls) THEN <<u, b, l + 1, p>>
    ELSE IF p < Len(Zip(item_types, click_paths)) THEN <<u, b, 1, p + 1>>
    ELSE IF b < Len(browsers) THEN <<u, b + 1, 1, 1>>
    ELSE IF u < Len(users) THEN <<u + 1, 1, 1, 1>>
    ELSE <<0, 0, 0, 0>>

\* the next position of the nested for loops, <<0, 0, 0, 0>> past the last
NextPosition(u, b, l, p) ==
    IF p < Len(Zip(item_types, click_paths)) THEN <<u, b, l, p + 1>>
    ELSE IF l < Len(urls) THEN <<u, b, l + 1, 1>>
    ELSE IF b < Len(browsers) THEN <<u, b + 1, 1, 1>>
    ELSE IF u < Len(users) THEN <<u + 1, 1, 1, 1>>
    ELSE <<0, 0, 0, 0>>

\* no CompareScreenShots object is under study
NoScreenShots ==
    /\ shot_one = None /\ shot_two = None
    /\ image_one = None /\ image_two = None
    /\ difference = None
    /\ diff_found = None
    /\ diff_distance_metric = None
    /\ image_pc = "idle"

\* no CompareFacetNumbersBetweenURLS object is under study
NoFacets ==
    /\ prod_facets = None /\ rc_facets = None
    /\ prod_captured = None /\ rc_captured = None
    /\ report = <<>>
    /\ facet_pc = "idle"

\* no comparison phase of compare_facets is under study
NoEngines ==
    /\ url_comparison = FALSE
    /\ facet_records = <<>>
    /\ captured_records = <<>>
    /\ browser_reports = <<>>
    /\ cf_error = "none"
    /\ cf_i = 0
    /\ cf_pc = "idle"

\* no stitch_image call is under study
NoStitching ==
    /\ client_height = 0
    /\ scroll_height = 0
    /\ scroll_top = 0
    /\ difference_to_keep = 0 - 1
    /\ image_slices = <<>>
    /\ stitch_pc = "idle"

\* no get_data loop is under study
NoTitling ==
    /\ page_titles = <<>>
    /\ data_dict = {}
    /\ facet_i = 0

\* no _parse_arguments call is under study
NoParsing ==
    /\ parse_args = <<>>
    /\ parse_result = <<>>
    /\ parse_pairs = <<>>
    /\ parse_pc = "idle"

\* no editing check is under study
NoEditing ==
    /\ edit_op = None
    /\ edit_rc_url = <<>>
    /\ edit_env = <<>>
    /\ effects = <<>>
    /\ edit_i = 0
    /\ edit_pc = "idle"

Init ==
    /\ op \in Operations
    /\ users \in UserLists
    /\ browsers \in BrowserLists
    /\ item_types \in ItemLists
    /\ click_paths \in ClickPathLists(op, item_types)
    /\ Len(users) * Len(browsers) * Len(item_types) <= MaxGrid
    /\ ui = 1 /\ bi = 1 /\ li = 1 /\ pi = 1
    /\ retry = RetryBudget
    /\ pc = "loop"
    /\ all_data = <<>>
    /\ warnings = <<>>
    /\ recorded = <<>>
    /\ driver = "unset"
    /\ started = 0
    /\ quits = 0
    /\ task_completed = FALSE
    /\ data = None
    /\ exc = "none"
    /\ attempts = 0
    /\ sleeps = 0
    /\ interrupted = FALSE
    /\ confirmed = FALSE
    /\ step_error = FALSE
    /\ quit_error = FALSE
    /\ propagated = "none"
    /\ ci = 0
    /\ compared = <<>>
    /\ NoStitching
    /\ NoTitling
    /\ NoParsing
    /\ NoEditing
    /\ NoEngines
    /\ NoScreenShots
    /\ NoFacets

\* dw = DataWorker(...): a fresh worker for the coordinate at the position
Dispatch ==
    /\ UNCHANGED comparators
    /\ pc = "loop"
    /\ pc' = "new_driver"
    /\ attempts' = attempts + 1
    /\ driver' = "unset"
    /\ started' = 0
    /\ quits' = 0
    /\ task_completed' = FALSE
    /\ data' = None
    /\ exc' = "none"
    /\ confirmed' = FALSE
    /\ step_error' = FALSE
    /\ quit_error' = FALSE
    /\ UNCHANGED <<config, position, retry, all_data, warnings, recorded,
                   sleeps, interrupted, propagated, ci, compared>>

(* ---------------------------------------------------------------------- *)
(* DataWorker.run_task                                                     *)
(* ---------------------------------------------------------------------- *)

\* what NewDriver(browser, url) can do: the webdriver constructor raises, or
\* the session starts and set_window_size / set_window_position / get(url)
\* raises, or all of it succeeds; a signal can arrive before or after the
\* session has started
NewDriverOutcomes ==
    {"ok", "raise_before", "raise_after", "interrupt_before", "interrupt_after"}

\* the webdriver constructor returned: a browser session exists
SessionStarted(o) == o \in {"ok", "raise_after", "interrupt_after"}

\* self.driver = NewDriver(...).driver is reached only when __init__ returns
DriverAssigned(o) == o = "ok"

RaisedBy(o) ==
    IF o \in {"raise", "raise_before", "raise_after"} THEN "error"
    ELSE IF o \in {"interrupt", "interrupt_before", "interrupt_after"}
         THEN "interrupt"
    ELSE "none"

\* creds = [c for c in self.user_credentials if c['username'] == self.user]
\* if len(creds) == 0 and self.user != 'Public': raise ValueError('Unknown user')
UnknownUser(u) == u \notin StoredCredentials /\ u # "Public"

\* get_credentials_of_user returning the empty list instead of raising
SignInOutcomes_NoCredentialCheck(u) ==
    {"True", "False", "None", "raise", "interrupt"}

\* what SignIn(driver, user) can do: raise, be interrupted, or return after
\* sign_in() ended with signed_in() returning True ("True"), with signed_in()
\* returning False on TimeoutError ("False"), or on the Safari path that
\* clicks an account button and returns None without checking ("None")
SignInOutcomes(u) ==
    IF UnknownUser(u) THEN {"raise", "interrupt"}
    ELSE {"True", "False", "None", "raise", "interrupt"}

\* signed_in = SignIn(self.driver, self.user): the name is bound to the
\* SignIn instance, whatever sign_in() returned
SignedInValue(result) == "SignIn object"

\* if not signed_in: raise ValueError('Login stalled.')
LoginStalled(v) == v \in {"False", "None"}

\* what a step of the capture task can do
StepOutcomes == {"ok", "raise", "interrupt"}

\* try: <page preparation step> except: pass
PrepareRaised(o) == "none"

\* the except Exception clause re-raising what it caught
Handled_Reraises(e) == e

\* except (KeyboardInterrupt, SystemExit): raise
\* except Exception as e: print(...)
\* what still propagates once the except clauses have run
Handled(e) == IF e = "interrupt" THEN "interrupt" ELSE "none"

\* except AttributeError: pass, around self.driver.quit()
QuitOutcomes == {"ok", "raise", "interrupt"}

QuitPropagates(o) ==
    IF o = "raise" THEN "quit_error"
    ELSE IF o = "interrupt" THEN "interrupt"
    ELSE "none"

ArtifactOf(t) == IF t = "GetFacetNumbers" THEN "facets" ELSE "image"

\* a step inside the try block raised: control goes to the finally block
Raise(o) ==
    /\ exc' = RaisedBy(o)
    /\ step_error' = (step_error \/ RaisedBy(o) = "error")
    /\ interrupted' = (interrupted \/ RaisedBy(o) = "interrupt")
    /\ pc' = "finally"

\* self.new_driver()
NewDriver ==
    /\ UNCHANGED comparators
    /\ pc = "new_driver"
    /\ \E o \in NewDriverOutcomes :
        /\ started' = IF SessionStarted(o) THEN started + 1 ELSE started
        /\ driver' = IF DriverAssigned(o) THEN "set" ELSE driver
        /\ IF RaisedBy(o) = "none"
           THEN /\ pc' = IF users[ui] # "Public" THEN "sign_in" ELSE "capture"
                /\ UNCHANGED <<exc, step_error, interrupted>>
           ELSE Raise(o)
    /\ UNCHANGED <<config, position, retry, all_data, warnings, recorded,
                   quits, task_completed, data, attempts, sleeps, confirmed,
                   quit_error, propagated, ci, compared>>

\* signed_in = SignIn(...); self.driver.refresh(); if not signed_in: raise
SignIn ==
    /\ UNCHANGED comparators
    /\ pc = "sign_in"
    /\ \E o \in SignInOutcomes(users[ui]) :
        IF RaisedBy(o) # "none"
        THEN Raise(o) /\ UNCHANGED confirmed
        ELSE /\ confirmed' = (o = "True")
             /\ IF LoginStalled(SignedInValue(o))
                THEN Raise("raise")
                ELSE /\ pc' = "capture"
                     /\ UNCHANGED <<exc, step_error, interrupted>>
    /\ UNCHANGED <<config, position, retry, all_data, warnings, recorded,
                   driver, started, quits, task_completed, data, attempts,
                   sleeps, quit_error, propagated, ci, compared>>

\* data = new_task.get_data(); self.task_completed = True; return data
Completed ==
    /\ data' = ArtifactOf(TaskOf(op))
    /\ task_completed' = TRUE
    /\ pc' = "finally"
    /\ UNCHANGED <<exc, step_error, interrupted>>

\* GetFacetNumbers.get_data as a whole; for GetScreenShot the steps of
\* get_data before the page preparation (_try_load_item_type,
\* _try_perform_click_path)
Capture ==
    /\ UNCHANGED comparators
    /\ pc = "capture"
    /\ \E o \in StepOutcomes :
        IF RaisedBy(o) # "none"
        THEN Raise(o) /\ UNCHANGED <<data, task_completed>>
        ELSE IF TaskOf(op) = "GetScreenShot"
             THEN /\ pc' = "prepare"
                  /\ UNCHANGED <<data, task_completed, exc, step_error,
                                 interrupted>>
             ELSE Completed
    /\ UNCHANGED <<config, position, retry, all_data, warnings, recorded,
                   driver, started, quits, attempts, sleeps, confirmed,
                   quit_error, propagated, ci, compared>>

\* GetScreenShot.get_data: make_experiment_pages_look_the_same,
\* _expand_document_details, _get_rid_of_test_warning_banner, each inside
\* try: ... except: pass
Prepare ==
    /\ UNCHANGED comparators
    /\ pc = "prepare"
    /\ \E o \in StepOutcomes :
        /\ interrupted' = (interrupted \/ RaisedBy(o) = "interrupt")
        /\ IF PrepareRaised(o) = "none"
           THEN /\ pc' = "screenshot"
                /\ UNCHANGED <<exc, step_error>>
           ELSE /\ exc' = PrepareRaised(o)
                /\ step_error' = (step_error \/ PrepareRaised(o) = "error")
                /\ pc' = "finally"
    /\ UNCHANGED <<config, position, retry, all_data, warnings, recorded,
                   driver, started, quits, task_completed, data, attempts,
                   sleeps, confirmed, quit_error, propagated, ci, compared>>

\* GetScreenShot.get_data: the scrolling and take_screenshot()
Screenshot ==
    /\ UNCHANGED comparators
    /\ pc = "screenshot"
    /\ \E o \in StepOutcomes :
        IF RaisedBy(o) # "none"
        THEN Raise(o) /\ UNCHANGED <<data, task_completed>>
        ELSE Completed
    /\ UNCHANGED <<config, position, retry, all_data, warnings, recorded,
                   driver, started, quits, attempts, sleeps, confirmed,
                   quit_error, propagated, ci, compared>>

\* run_task leaves: by the pending exception p, or by returning data
Leave(p) ==
    IF p = "none"
    THEN pc' = "returned" /\ UNCHANGED propagated
    ELSE pc' = "aborted" /\ propagated' = p

\* finally: try: self.driver.quit() except AttributeError: pass
Finally ==
    /\ UNCHANGED comparators
    /\ pc = "finally"
    /\ IF driver = "unset"
       THEN \* AttributeError: the worker has no driver attribute
            /\ Leave(Handled(exc))
            /\ UNCHANGED <<quits, quit_error, interrupted>>
       ELSE \E o \in QuitOutcomes :
            /\ quits' = quits + 1
            /\ quit_error' = (o = "raise")
            /\ interrupted' = (interrupted \/ o = "interrupt")
            /\ IF QuitPropagates(o) # "none"
               THEN Leave(QuitPropagates(o))
               ELSE Leave(Handled(exc))
    /\ UNCHANGED <<config, position, retry, all_data, warnings, recorded,
                   driver, started, task_completed, data, exc, attempts,
                   sleeps, confirmed, step_error, ci, compared>>

\* data = dw.run_task() has returned: append and break, or sleep and retry
Returned ==
    /\ UNCHANGED comparators
    /\ pc = "returned"
    /\ IF task_completed
       THEN /\ all_data' = Append(all_data, Record(bi, li, ui, pi, data))
            /\ recorded' = Append(recorded, position)
            /\ pc' = "advance"
            /\ UNCHANGED <<retry, sleeps, warnings>>
       ELSE /\ sleeps' = sleeps + 1
            /\ retry' = retry - 1
            /\ IF Exhausted(retry - 1)
               THEN /\ warnings' = Append(warnings, position)
                    /\ pc' = "advance"
               ELSE /\ pc' = "loop"
                    /\ UNCHANGED warnings
            /\ UNCHANGED <<all_data, recorded>>
    /\ UNCHANGED <<config, position, worker, attempts, interrupted,
                   propagated, ci, compared>>

\* break: the for loops move to the next coordinate, or run_tasks returns
Advance ==
    /\ UNCHANGED comparators
    /\ pc = "advance"
    /\ LET n == NextPosition(ui, bi, li, pi) IN
        IF n = <<0, 0, 0, 0>>
        THEN /\ pc' = "tasks_done"
             /\ UNCHANGED <<position, retry, attempts, sleeps>>
        ELSE /\ ui' = n[1] /\ bi' = n[2] /\ li' = n[3] /\ pi' = n[4]
             /\ retry' = RetryBudget
             /\ attempts' = 0
             /\ sleeps' = 0
             /\ pc' = "loop"
    /\ UNCHANGED <<config, all_data, warnings, recorded, worker, interrupted,
                   propagated, ci, compared>>

(* ---------------------------------------------------------------------- *)
(* The comparison phase of compare_facets and find_differences             *)
(* ---------------------------------------------------------------------- *)

\* the pages the comparison loops go through: compare_facets loops over
\* item_types with click_path=None, find_differences over
\* zip(item_types, click_paths)
ComparedPages ==
    IF op = "compare_facets"
    THEN [i \in 1..Len(item_types) |-> <<item_types[i], None>>]
    ELSE Zip(item_types, click_paths)

\* for browser in browsers: for user in users: for item_type in item_types
UrlJobCount == Len(browsers) * Len(users) * Len(ComparedPages)

UrlJob(k) ==
    LET np == Len(ComparedPages)
        nu == Len(users)
    IN [browser |-> browsers[((k - 1) \div (nu * np)) + 1],
        user |-> users[(((k - 1) \div np) % nu) + 1],
        item_type |-> ComparedPages[((k - 1) % np) + 1][1],
        click_path |-> ComparedPages[((k - 1) % np) + 1][2]]

\* for url in urls: for user in users: for item_type in item_types
BrowserJobCount == Len(urls) * Len(users) * Len(item_types)

BrowserJob(k) ==
    LET np == Len(item_types)
        nu == Len(users)
    IN [url |-> urls[((k - 1) \div (nu * np)) + 1],
        user |-> users[(((k - 1) \div np) % nu) + 1],
        item_type |-> item_types[((k - 1) % np) + 1]]

\* URLComparison.__init__: self.prod_data / self.rc_data for one url
UrlData(url, j) ==
    SelectSeq(all_data,
              LAMBDA d : /\ d.url = url
                         /\ d.user = j.user
                         /\ d.browser = j.browser
                         /\ d.item_type = j.item_type
                         /\ d.click_path = j.click_path)

\* BrowserComparison.__init__: self.url_data
BrowserData(j) ==
    SelectSeq(all_data,
              LAMBDA d : /\ d.user = j.user
                         /\ d.item_type = j.item_type
                         /\ d.url = j.url)

\* the constructor without its assertion
UrlComparisonInitError_NoAssert(j) == "none"

\* URLComparison.__init__: assert len(self.prod_data) == len(self.rc_data)
UrlComparisonInitError(j) ==
    IF Len(UrlData(prod_url, j)) # Len(UrlData(rc_url, j)) THEN "AssertionError"
    ELSE "none"

\* the constructor, then compare_data reads self.prod_data[0] and
\* self.rc_data[0]
UrlComparisonError(j) ==
    IF UrlComparisonInitError(j) # "none" THEN UrlComparisonInitError(j)
    ELSE IF Len(UrlData(prod_url, j)) = 0 THEN "IndexError"
    ELSE "none"

\* set.union(*[set(d['data'].keys()) for d in self.url_data])
BrowserComparisonError(j) ==
    IF Len(BrowserData(j)) = 0 THEN "TypeError" ELSE "none"

\* dm.run_tasks() has returned to the operation
StartComparisons ==
    /\ UNCHANGED comparators
    /\ pc = "tasks_done"
    /\ pc' = "url_comparison"
    /\ ci' = 1
    /\ UNCHANGED <<config, position, retry, all_data, warnings, recorded,
                   worker, attempts, sleeps, interrupted, propagated, compared>>

\* one pass of the url comparison loop: CompareFacetNumbersBetweenURLS or
\* CompareScreenShots is constructed and compare_data() is called
UrlComparison ==
    /\ UNCHANGED comparators
    /\ pc = "url_comparison"
    /\ IF ci > UrlJobCount
       THEN /\ pc' = IF op = "compare_facets" THEN "browser_comparison"
                     ELSE "finished"
            /\ ci' = 1
            /\ UNCHANGED <<compared, propagated>>
       ELSE IF UrlComparisonError(UrlJob(ci)) # "none"
            THEN /\ pc' = "crashed"
                 /\ propagated' = UrlComparisonError(UrlJob(ci))
                 /\ UNCHANGED <<ci, compared>>
            ELSE /\ compared' = Append(compared, <<"url", ci>>)
                 /\ ci' = ci + 1
                 /\ UNCHANGED <<pc, propagated>>
    /\ UNCHANGED <<config, position, retry, all_data, warnings, recorded,
                   worker, attempts, sleeps, interrupted>>

\* one pass of compare_facets' browser comparison loop
BrowserComparison ==
    /\ UNCHANGED comparators
    /\ pc = "browser_comparison"
    /\ IF ci > BrowserJobCount
       THEN /\ pc' = "finished"
            /\ UNCHANGED <<ci, compared, propagated>>
       ELSE IF BrowserComparisonError(BrowserJob(ci)) # "none"
            THEN /\ pc' = "crashed"
                 /\ propagated' = BrowserComparisonError(BrowserJob(ci))
                 /\ UNCHANGED <<ci, compared>>
            ELSE /\ compared' = Append(compared, <<"browser", ci>>)
                 /\ ci' = ci + 1
                 /\ UNCHANGED <<pc, propagated>>
    /\ UNCHANGED <<config, position, retry, all_data, warnings, recorded,
                   worker, attempts, sleeps, interrupted>>

Next ==
    \/ Dispatch
    \/ NewDriver
    \/ SignIn
    \/ Capture
    \/ Prepare
    \/ Screenshot
    \/ Finally
    \/ Returned
    \/ Advance
    \/ StartComparisons
    \/ UrlComparison
    \/ BrowserComparison

Spec == Init /\ [][Next]_vars

(* ---------------------------------------------------------------------- *)
(* GetFacetNumbers.get_data and CompareFacetNumbersBetweenURLS.compare_data *)
(* ---------------------------------------------------------------------- *)

\* facet titles, facet labels and the texts of their numbers, each in the
\* order sorted() gives the strings
TitleOrder == <<"Lab", "Status">>
LabelOrder == <<"archived", "released">>
NumberOrder == <<"2", "3">>

Range(s) == {s[i] : i \in DOMAIN s}

Rank(order, x) == CHOOSE i \in DOMAIN order : order[i] = x

\* list(zip(categories, numbers)): the entries of one facet
Entries == Range(LabelOrder) \X Range(NumberOrder)

\* the lists get_data can store under a title: the facet 'Status' holds up to
\* MaxEntries entries, none of them twice, the facet 'Lab' is empty or holds
\* one entry
EntryLists(title) ==
    {<<>>} \cup
    (IF title = "Status"
     THEN {s \in SeqsUpTo(Entries, MaxEntries) : Distinct(s)}
     ELSE SeqsUpTo({<<LabelOrder[1], NumberOrder[1]>>}, 1))

\* the defaultdict(list) get_data returns: a mapping from the titles of the
\* facets on the page to their entries
GetDataResults ==
    UNION {{m \in [T -> EntryLists("Status")] :
               \A t \in T : m[t] \in EntryLists(t)} :
           T \in SUBSET Range(TitleOrder)}

\* defaultdict.__getitem__: the value of mapping[title]
Item(mapping, title) ==
    IF title \in DOMAIN mapping THEN mapping[title] ELSE <<>>

\* defaultdict.__getitem__: the mapping after mapping[title] was evaluated for
\* the titles T, a missing title having been inserted with list()
Touched(mapping, T) ==
    [t \in DOMAIN mapping \cup T |-> Item(mapping, t)]

\* the order of two (label, number) tuples of strings
EntryLess(x, y) ==
    \/ Rank(LabelOrder, x[1]) < Rank(LabelOrder, y[1])
    \/ /\ x[1] = y[1]
       /\ Rank(NumberOrder, x[2]) < Rank(NumberOrder, y[2])

RECURSIVE SortedEntries(_)
\* sorted(S) for a set S of entries
SortedEntries(S) ==
    IF S = {} THEN <<>>
    ELSE LET least == CHOOSE x \in S : \A y \in S \ {x} : EntryLess(x, y)
         IN <<least>> \o SortedEntries(S \ {least})

RECURSIVE SortedTitles(_)
\* sorted(S) for a set S of titles
SortedTitles(S) ==
    IF S = {} THEN <<>>
    ELSE LET least == CHOOSE x \in S : \A y \in S \ {x} :
                          Rank(TitleOrder, x) < Rank(TitleOrder, y)
         IN <<least>> \o SortedTitles(S \ {least})

\* [k[0] for k in entries]
LabelsOf(entries) == {entries[i][1] : i \in DOMAIN entries}

\* in_prod = prod_data.keys() - rc_data.keys()
InProd(prod_data, rc_data) == DOMAIN prod_data \ DOMAIN rc_data

\* every title of the second mapping taken as missing from the first
InRc_AllTitles(prod_data, rc_data) == DOMAIN rc_data

\* in_rc = rc_data.keys() - prod_data.keys()
InRc(prod_data, rc_data) == DOMAIN rc_data \ DOMAIN prod_data

\* 'Different keys:' printed without the test of the two key sets
KeyLines_Unconditional(prod_data, rc_data) ==
    <<[kind |-> "different_keys"]>>

\* the lines 'Different keys:', 'RC missing: ...', 'Production missing: ...'
KeyLines(prod_data, rc_data) ==
    IF DOMAIN prod_data # DOMAIN rc_data
    THEN <<[kind |-> "different_keys"]>>
         \o (IF InProd(prod_data, rc_data) # {}
             THEN <<[kind |-> "rc_missing",
                     titles |-> InProd(prod_data, rc_data)]>>
             ELSE <<>>)
         \o (IF InRc(prod_data, rc_data) # {}
             THEN <<[kind |-> "production_missing",
                     titles |-> InRc(prod_data, rc_data)]>>
             ELSE <<>>)
    ELSE <<>>

\* the loop going through the titles both mappings have, and no others
ComparedTitles_CommonOnly(prod_data, rc_data) ==
    DOMAIN prod_data \cap DOMAIN rc_data

\* set(prod_data.keys()).union(set(rc_data.keys()))
ComparedTitles(prod_data, rc_data) == DOMAIN prod_data \cup DOMAIN rc_data

\* the two lists compared as lists, entry by entry
Mismatch_Ordered(prod_entries, rc_entries) == prod_entries # rc_entries

\* prod = set(prod_data[title]); rc = set(rc_data[title]); if prod != rc
Mismatch(prod_entries, rc_entries) == Range(prod_entries) # Range(rc_entries)

\* for p, r in zip(ps, rs): print('p[0]: p[1] (prod), r[1] (rc)')
CountLines(title, ps, rs) ==
    [i \in 1..Min(Len(ps), Len(rs)) |->
        [kind |-> "count", title |-> title, label |-> ps[i][1],
         prod |-> ps[i][2], rc |-> rs[i][2]]]

\* one pass of the loop over the titles: what is printed for the title
TitleLines(title, prod_data, rc_data) ==
    LET prod == Range(Item(prod_data, title))
        rc == Range(Item(rc_data, title))
        in_prod == SortedEntries(prod \ rc)
        in_rc == SortedEntries(rc \ prod)
        both_keys == LabelsOf(in_prod) \cap LabelsOf(in_rc)
        both_prod == SortedEntries({x \in Range(in_prod) : x[1] \in both_keys})
        both_rc == SortedEntries({x \in Range(in_rc) : x[1] \in both_keys})
        only_prod == SelectSeq(in_prod, LAMBDA x : x[1] \notin both_keys)
        only_rc == SelectSeq(in_rc, LAMBDA x : x[1] \notin both_keys)
    IN IF Mismatch(Item(prod_data, title), Item(rc_data, title))
       THEN <<[kind |-> "title", title |-> title, upper |-> TRUE]>>
            \o (IF /\ Len(in_prod) = Len(in_rc)
                   /\ LabelsOf(Item(prod_data, title))
                        = LabelsOf(Item(rc_data, title))
                THEN CountLines(title, in_prod, in_rc)
                ELSE (IF both_prod # <<>>
                      THEN CountLines(title, both_prod, both_rc)
                      ELSE <<>>)
                     \o (IF only_prod # <<>>
                         THEN <<[kind |-> "prod", title |-> title,
                                 entries |-> only_prod]>>
                         ELSE <<>>)
                     \o (IF only_rc # <<>>
                         THEN <<[kind |-> "rc", title |-> title,
                                 entries |-> only_rc]>>
                         ELSE <<>>))
       ELSE <<[kind |-> "title", title |-> title, upper |-> FALSE],
              [kind |-> "match", title |-> title]>>

RECURSIVE LoopLines(_, _, _)
\* for title in sorted(...): the lines of the passes, in order
LoopLines(titles, prod_data, rc_data) ==
    IF titles = <<>> THEN <<>>
    ELSE TitleLines(Head(titles), prod_data, rc_data)
         \o LoopLines(Tail(titles), prod_data, rc_data)

\* everything compare_data prints after its heading
Report(prod_data, rc_data) ==
    KeyLines(prod_data, rc_data)
    \o LoopLines(SortedTitles(ComparedTitles(prod_data, rc_data)),
                 prod_data, rc_data)

\* no run of an operation is under study
NoRun ==
    /\ op = "compare_facets"
    /\ users = <<>> /\ browsers = <<>>
    /\ item_types = <<>> /\ click_paths = <<>>
    /\ ui = 0 /\ bi = 0 /\ li = 0 /\ pi = 0
    /\ retry = RetryBudget
    /\ pc = "idle"
    /\ all_data = <<>>
    /\ warnings = <<>>
    /\ recorded = <<>>
    /\ driver = "unset"
    /\ started = 0
    /\ quits = 0
    /\ task_completed = FALSE
    /\ data = None
    /\ exc = "none"
    /\ attempts = 0
    /\ sleeps = 0
    /\ interrupted = FALSE
    /\ confirmed = FALSE
    /\ step_error = FALSE
    /\ quit_error = FALSE
    /\ propagated = "none"
    /\ ci = 0
    /\ compared = <<>>

\* two mappings captured by GetFacetNumbers.get_data, selected by
\* URLComparison.__init__ as prod_data[0] and rc_data[0]
InitFacets ==
    /\ NoRun
    /\ NoEditing
    /\ NoParsing
    /\ NoTitling
    /\ NoStitching
    /\ NoEngines
    /\ NoScreenShots
    /\ prod_captured \in GetDataResults
    /\ rc_captured \in GetDataResults
    /\ prod_facets = prod_captured
    /\ rc_facets = rc_captured
    /\ report = <<>>
    /\ facet_pc = "captured"

\* CompareFacetNumbersBetweenURLS.compare_data()
CompareData ==
    /\ facet_pc = "captured"
    /\ facet_pc' = "compared"
    /\ report' = Report(prod_facets, rc_facets)
    /\ prod_facets' = Touched(prod_facets,
                              ComparedTitles(prod_facets, rc_facets))
    /\ rc_facets' = Touched(rc_facets, ComparedTitles(prod_facets, rc_facets))
    /\ UNCHANGED <<prod_captured, rc_captured, orchestration, screenshots,
                   engines, stitching, titling, parsing, editing>>

NextFacets == CompareData

SpecFacets == InitFacets /\ [][NextFacets]_vars

(* ---------------------------------------------------------------------- *)
(* CompareScreenShots                                                      *)
(* ---------------------------------------------------------------------- *)

\* if difference.sum() > 50000
Threshold == 50000

\* the widths of the screenshots, in cells of RunLength pixels
Widths == {1, 2}

\* the (blue, green, red) values of the pixels cv2.imread returns
Colours == {<<0, 0, 0>>, <<0, 0, 100>>, <<0, 0, 250>>}

\* the arrays cv2.imread can return for the files take_screenshot saved: rows
\* of cells of three uint8 channels
ImageFiles ==
    UNION {[1..h -> [1..w -> Colours]] : h \in 1..MaxRows, w \in Widths}

\* np.pad's constant rows
ZeroRow(image) == [c \in DOMAIN image[1] |-> <<0, 0, 0>>]

\* the zero rows put above the image
Pad_OnTop(image, pad_shape) ==
    [i \in 1..pad_shape |-> ZeroRow(image)] \o image

\* np.pad(image, ((0, pad_shape), (0, 0), (0, 0)), mode='constant')
Pad(image, pad_shape) ==
    image \o [i \in 1..pad_shape |-> ZeroRow(image)]

pad_if_different_shape(one, two) ==
    LET image_one_row_number == Len(one)
        image_two_row_number == Len(two)
        pad_shape == IF image_one_row_number > image_two_row_number
                     THEN image_one_row_number - image_two_row_number
                     ELSE image_two_row_number - image_one_row_number
    IN IF image_one_row_number > image_two_row_number
       THEN <<one, Pad(two, pad_shape)>>
       ELSE <<Pad(one, pad_shape), two>>

\* if image_one.shape[0] != image_two.shape[0]: image_one, image_two = ...
Padded(one, two) ==
    IF Len(one) # Len(two) THEN pad_if_different_shape(one, two)
    ELSE <<one, two>>

\* cv2.subtract on uint8: the result is saturated to 0..255
Saturated(x) == IF x < 0 THEN 0 ELSE IF x > 255 THEN 255 ELSE x

\* cv2.subtract raises cv2.error for arrays of different sizes
SameSize(one, two) == Len(one) = Len(two) /\ Len(one[1]) = Len(two[1])

\* cv2.subtract(one, two)
subtract(one, two) ==
    [i \in DOMAIN one |->
        [c \in DOMAIN one[i] |->
            [k \in 1..3 |-> Saturated(one[i][c][k] - two[i][c][k])]]]

\* the sum over the pixels a cell stands for
CellSum(cell) == RunLength * (cell[1] + cell[2] + cell[3])

RECURSIVE RowSum(_)
RowSum(row) ==
    IF row = <<>> THEN 0 ELSE CellSum(Head(row)) + RowSum(Tail(row))

RECURSIVE ArraySum(_)
\* array.sum()
ArraySum(array) ==
    IF array = <<>> THEN 0 ELSE RowSum(Head(array)) + ArraySum(Tail(array))

\* np.any(array)
AnyNonzero(array) ==
    \E i \in DOMAIN array : \E c \in DOMAIN array[i] : \E k \in 1..3 :
        array[i][c][k] # 0

is_same(array) ==
    IF AnyNonzero(array)
    THEN (IF ArraySum(array) > Threshold THEN FALSE ELSE TRUE)
    ELSE TRUE

\* the difference compute_image_difference takes of two image files
Difference(one, two) == subtract(Padded(one, two)[1], Padded(one, two)[2])

\* two screenshots saved by GetScreenShot, selected by URLComparison.__init__
\* as prod_data[0] and rc_data[0]
InitScreenShots ==
    /\ NoRun
    /\ NoEditing
    /\ NoParsing
    /\ NoTitling
    /\ NoStitching
    /\ NoEngines
    /\ NoFacets
    /\ shot_one \in ImageFiles
    /\ shot_two \in ImageFiles
    /\ image_one = None /\ image_two = None
    /\ difference = None
    /\ diff_found = None
    /\ diff_distance_metric = None
    /\ image_pc = "saved"

\* CompareScreenShots.compute_image_difference()
ComputeImageDifference ==
    /\ image_pc = "saved"
    /\ image_one' = Padded(shot_one, shot_two)[1]
    /\ image_two' = Padded(shot_one, shot_two)[2]
    /\ IF SameSize(image_one', image_two')
       THEN /\ difference' = subtract(image_one', image_two')
            /\ diff_distance_metric' = ArraySum(difference')
            /\ diff_found' = ~is_same(difference')
            /\ image_pc' = "compared"
       ELSE /\ image_pc' = "failed"
            /\ UNCHANGED <<difference, diff_distance_metric, diff_found>>
    /\ UNCHANGED <<shot_one, shot_two, orchestration, facets, engines,
                   stitching, titling, parsing, editing>>

NextScreenShots == ComputeImageDifference

SpecScreenShots == InitScreenShots /\ [][NextScreenShots]_vars

(* ---------------------------------------------------------------------- *)
(* The comparison phase of compare_facets on captured mappings:            *)
(* CompareFacetNumbersBetweenURLS, then CompareFacetNumbersBetweenBrowsers  *)
(* ---------------------------------------------------------------------- *)

\* the browsers compare_facets was called with
RequestedBrowsers == SubSeq(BROWSERS, 1, 2)

\* the coordinates of one user and one page, in the order run_tasks goes
\* through them: for browser in browsers: for url in urls
Slots ==
    [k \in 1..(Len(RequestedBrowsers) * Len(urls)) |->
        [browser |-> RequestedBrowsers[((k - 1) \div Len(urls)) + 1],
         url |-> urls[((k - 1) % Len(urls)) + 1]]]

\* the mappings get_data returned for these coordinates: 'Status' is empty or
\* holds one of two entries, 'Lab' holds one entry
PageFacets ==
    {m \in GetDataResults :
        /\ \A t \in DOMAIN m :
              m[t] \in {<<>>, <<<<"archived", "2">>>>, <<<<"archived", "3">>>>}
        /\ "Lab" \in DOMAIN m => m["Lab"] # <<>>}

\* what stands in for the mapping of a coordinate run_tasks gave up
Abandoned == [t \in {"(abandoned)"} |-> <<>>]

\* all_data after run_tasks: the coordinates that were not given up have a
\* record, in the order run_tasks went through them
RecordsOfRun(mappings) ==
    LET every == [k \in DOMAIN Slots |->
                     [browser |-> Slots[k].browser, url |-> Slots[k].url,
                      data |-> mappings[k]]]
    IN SelectSeq(every, LAMBDA d : d.data # Abandoned)

\* URLComparison.__init__: the positions in all_data of the records selected
\* for a url and a browser
SelectedFor(records, url, browser) ==
    {i \in DOMAIN records :
        records[i].url = url /\ records[i].browser = browser}

\* BrowserComparison.__init__: self.url_data
url_data(records, url) == SelectSeq(records, LAMBDA d : d.url = url)

\* all_keys = set.union(*[set(d['data'].keys()) for d in self.url_data])
all_keys(selected) == UNION {DOMAIN selected[i].data : i \in DOMAIN selected}

\* common_keys = set.intersection(*[set(d['data'].keys()) ...])
common_keys(selected) ==
    {key \in all_keys(selected) :
        \A i \in DOMAIN selected : key \in DOMAIN selected[i].data}

different_keys(selected) == all_keys(selected) \ common_keys(selected)

\* what is printed for one of the different keys
DifferentKeyLines(key, selected) ==
    LET browsers_with_key ==
            {selected[i].browser : i \in {j \in DOMAIN selected :
                                         key \in DOMAIN selected[j].data}}
        browsers_without_key ==
            {selected[i].browser : i \in {j \in DOMAIN selected :
                                         key \notin DOMAIN selected[j].data}}
    IN <<[kind |-> "key", title |-> key]>>
       \o (IF browsers_with_key # {}
           THEN <<[kind |-> "key_in_browsers", title |-> key,
                   browsers |-> browsers_with_key]>>
           ELSE <<>>)
       \o (IF browsers_without_key # {}
           THEN <<[kind |-> "key_not_in_browsers", title |-> key,
                   browsers |-> browsers_without_key]>>
           ELSE <<>>)

\* [d[0] for d in category_data_by_browser if dd in d[1]], and the same with
\* 'not in'
BrowsersOf(key, selected, dd, with) ==
    LET chosen == SelectSeq(selected,
                            LAMBDA d : (dd \in Range(d.data[key])) = with)
    IN [i \in DOMAIN chosen |-> chosen[i].browser]

RECURSIVE DifferentDataLines(_, _, _)
\* for dd in different_data: the entry and its two lists of browsers
DifferentDataLines(key, selected, dds) ==
    IF dds = <<>> THEN <<>>
    ELSE <<[kind |-> "data", title |-> key, entry |-> Head(dds)],
           [kind |-> "data_in_browsers", title |-> key, entry |-> Head(dds),
            browsers |-> BrowsersOf(key, selected, Head(dds), TRUE)],
           [kind |-> "data_not_in_browsers", title |-> key,
            entry |-> Head(dds),
            browsers |-> BrowsersOf(key, selected, Head(dds), FALSE)]>>
         \o DifferentDataLines(key, selected, Tail(dds))

\* what is printed for one of the common keys
CommonKeyLines(key, selected) ==
    LET category_data ==
            {Range(selected[i].data[key]) : i \in DOMAIN selected}
        every_data == UNION category_data
        common_data == {dd \in every_data : \A c \in category_data : dd \in c}
        different_data == every_data \ common_data
    IN <<[kind |-> "key", title |-> key]>>
       \o (IF different_data # {}
           THEN DifferentDataLines(key, selected,
                                   SortedEntries(different_data))
           ELSE <<[kind |-> "match", title |-> key]>>)

RECURSIVE KeysLines(_, _, _)
\* the lines of a loop over keys, the keys taken in sorted order
KeysLines(keys, selected, different) ==
    IF keys = <<>> THEN <<>>
    ELSE (IF different THEN DifferentKeyLines(Head(keys), selected)
          ELSE CommonKeyLines(Head(keys), selected))
         \o KeysLines(Tail(keys), selected, different)

\* everything CompareFacetNumbersBetweenBrowsers.compare_data prints after
\* its heading
BrowserReport(selected) ==
    KeysLines(SortedTitles(different_keys(selected)), selected, TRUE)
    \o KeysLines(SortedTitles(common_keys(selected)), selected, FALSE)

\* dm.run_tasks() has returned: some coordinates have a record
InitCompareFacets ==
    /\ NoRun
    /\ NoEditing
    /\ NoParsing
    /\ NoTitling
    /\ NoStitching
    /\ NoScreenShots
    /\ NoFacets
    /\ url_comparison \in BOOLEAN
    /\ \E mappings \in [DOMAIN Slots -> PageFacets \cup {Abandoned}] :
          captured_records = RecordsOfRun(mappings)
    /\ facet_records = captured_records
    /\ browser_reports = <<>>
    /\ cf_error = "none"
    /\ cf_i = 1
    /\ cf_pc = IF url_comparison THEN "url_comparison"
               ELSE "browser_comparison"

\* one pass of 'for browser in browsers' under 'if url_comparison'
CompareBetweenURLS ==
    /\ cf_pc = "url_comparison"
    /\ LET browser == RequestedBrowsers[cf_i]
           prod == SelectedFor(facet_records, prod_url, browser)
           rc == SelectedFor(facet_records, rc_url, browser)
       IN IF Cardinality(prod) # Cardinality(rc)
          THEN /\ cf_pc' = "crashed"
               /\ cf_error' = "AssertionError"
               /\ UNCHANGED <<facet_records, cf_i>>
          ELSE IF prod = {}
          THEN /\ cf_pc' = "crashed"
               /\ cf_error' = "IndexError"
               /\ UNCHANGED <<facet_records, cf_i>>
          ELSE LET p == CHOOSE i \in prod : \A j \in prod : i <= j
                   r == CHOOSE i \in rc : \A j \in rc : i <= j
                   titles == ComparedTitles(facet_records[p].data,
                                            facet_records[r].data)
               IN /\ facet_records' =
                        [facet_records EXCEPT
                            ![p].data = Touched(@, titles),
                            ![r].data = Touched(@, titles)]
                  /\ cf_i' = IF cf_i < Len(RequestedBrowsers) THEN cf_i + 1
                             ELSE 1
                  /\ cf_pc' = IF cf_i < Len(RequestedBrowsers)
                              THEN "url_comparison"
                              ELSE "browser_comparison"
                  /\ UNCHANGED cf_error
    /\ UNCHANGED <<url_comparison, captured_records, browser_reports,
                   orchestration, screenshots, facets, stitching, titling,
                   parsing, editing>>

\* one pass of 'for url in urls' under 'if browser_comparison'
CompareBetweenBrowsers ==
    /\ cf_pc = "browser_comparison"
    /\ IF url_data(facet_records, urls[cf_i]) = <<>>
       THEN /\ cf_pc' = "crashed"
            /\ cf_error' = "TypeError"
            /\ UNCHANGED <<browser_reports, cf_i>>
       ELSE /\ browser_reports' =
                 Append(browser_reports,
                        BrowserReport(url_data(facet_records, urls[cf_i])))
            /\ cf_i' = IF cf_i < Len(urls) THEN cf_i + 1 ELSE cf_i
            /\ cf_pc' = IF cf_i < Len(urls) THEN "browser_comparison"
                        ELSE "finished"
            /\ UNCHANGED cf_error
    /\ UNCHANGED <<url_comparison, facet_records, captured_records,
                   orchestration, screenshots, facets, stitching, titling,
                   parsing, editing>>

NextCompareFacets ==
    \/ CompareBetweenURLS
    \/ CompareBetweenBrowsers

SpecCompareFacets == InitCompareFacets /\ [][NextCompareFacets]_vars

(* ---------------------------------------------------------------------- *)
(* GetScreenShot.take_screenshot and stitch_image                          *)
(* ---------------------------------------------------------------------- *)

\* viewport heights in CSS pixels: two small ones, and one large enough for
\* the relative tolerance of np.allclose to reach a whole pixel
ClientHeights == {2, 3, 400}

\* content heights of the pages: up to three viewports and two pixels
ScrollHeights(height) == 1..(3 * height + 2)

Abs(x) == IF x < 0 THEN 0 - x ELSE x

\* difference_to_keep before its first assignment
Unbound == 0 - 1

\* np.allclose(a, b, rtol=0.0025): |a - b| <= atol + 0.0025 * |b|
AllClose(a, b) == 400 * Abs(a - b) <= Abs(b)

\* window.scrollTo(0, y) in a browser that keeps the scroll position between
\* 0 and scrollHeight - clientHeight
ScrollTo(y) ==
    LET limit == IF scroll_height > client_height
                 THEN scroll_height - client_height ELSE 0
    IN IF y < 0 THEN 0 ELSE IF y > limit THEN limit ELSE y

\* get_screenshot_as_png(): two image rows per CSS pixel of the viewport;
\* the rows are named by their position in the page, from first to last
get_screenshot_as_png(top) == <<2 * top + 1, 2 * top + 2 * client_height>>

\* image[y_bound_low:, :] with y_bound_low = image.shape[0] - keep
Cropped(image, keep) == <<image[2] - keep + 1, image[2]>>

\* image_slices.append(image), the model keeping the first MaxSlices slices
Appended(slices, image) ==
    IF Len(slices) < MaxSlices THEN Append(slices, image) ELSE slices

\* lines 683-687: the value of difference_to_keep after the first if
DifferenceToKeep ==
    IF /\ 2 * client_height + scroll_top >= scroll_height
       /\ scroll_height # client_height + scroll_top
    THEN Abs(2 * (scroll_height - (client_height + scroll_top)))
    ELSE difference_to_keep

\* take_screenshot has found a browser other than Safari and
\* client_height != scroll_height, and stitch_image has scrolled to the top
InitStitch ==
    /\ NoRun
    /\ NoEditing
    /\ NoParsing
    /\ NoTitling
    /\ NoScreenShots
    /\ NoFacets
    /\ NoEngines
    /\ client_height \in ClientHeights
    /\ scroll_height \in ScrollHeights(client_height)
    /\ client_height # scroll_height
    /\ scroll_top = 0
    /\ difference_to_keep = Unbound
    /\ image_slices = <<>>
    /\ stitch_pc = "loop"

\* lines 678-695 of one pass of stitch_image's while loop: the capture, and
\* on the pass that breaks np.concatenate and cv2.imwrite as well
StitchCapture ==
    /\ stitch_pc = "loop"
    /\ difference_to_keep' = DifferenceToKeep
    /\ IF AllClose(scroll_height, client_height + scroll_top)
       THEN IF difference_to_keep' = Unbound
            THEN /\ stitch_pc' = "raised"
                 /\ UNCHANGED image_slices
            ELSE /\ image_slices' =
                      Appended(image_slices,
                               Cropped(get_screenshot_as_png(scroll_top),
                                       difference_to_keep'))
                 /\ stitch_pc' = "stitched"
       ELSE /\ image_slices' =
                 Appended(image_slices, get_screenshot_as_png(scroll_top))
            /\ stitch_pc' = "scroll"
    /\ UNCHANGED <<client_height, scroll_height, scroll_top, orchestration,
                   screenshots, facets, engines, titling, parsing, editing>>

\* lines 696-702: scroll one viewport down and hide the navigation bar
StitchScroll ==
    /\ stitch_pc = "scroll"
    /\ scroll_top' = ScrollTo(client_height + scroll_top)
    /\ stitch_pc' = "loop"
    /\ UNCHANGED <<client_height, scroll_height, difference_to_keep,
                   image_slices, orchestration, screenshots, facets, engines,
                   titling, parsing, editing>>

NextStitch == StitchCapture \/ StitchScroll

SpecStitch == InitStitch /\ [][NextStitch]_vars

\* the loop is not suspended for ever between two passes
FairSpecStitch == SpecStitch /\ WF_vars(NextStitch)

(* ---------------------------------------------------------------------- *)
(* GetFacetNumbers.get_data: the keys of data_dict                         *)
(* ---------------------------------------------------------------------- *)

\* facet titles, as sequences of characters: a title, the same title with a
\* digit appended, and a title that has the first as a prefix
FacetTitles == {<<"A">>, <<"A", "2">>, <<"A", "3">>, <<"A", "B">>}

Digits == <<"0", "1", "2", "3", "4", "5", "6", "7", "8", "9">>

\* str(n) for a natural number n
RECURSIVE str(_)
str(n) ==
    IF n < 10 THEN <<Digits[n + 1]>>
    ELSE str(n \div 10) \o <<Digits[(n % 10) + 1]>>

\* t.startswith(title)
startswith(t, title) ==
    /\ Len(t) >= Len(title)
    /\ SubSeq(t, 1, Len(title)) = title

\* data_dict.keys()
Keys(dd) == {item[1] : item \in dd}

\* lines 656-659: the key a facet with this title is stored under
KeyFor(title, dd) ==
    IF title \in Keys(dd)
    THEN title \o str(Cardinality({t \in Keys(dd) : startswith(t, title)}) + 1)
    ELSE title

\* data_dict[key] = value
SetItem(dd, key, value) ==
    {item \in dd : item[1] # key} \cup {<<key, value>>}

InitGetData ==
    /\ NoRun
    /\ NoEditing
    /\ NoParsing
    /\ NoScreenShots
    /\ NoFacets
    /\ NoEngines
    /\ NoStitching
    /\ page_titles \in SeqsUpTo(FacetTitles, MaxFacets)
    /\ data_dict = {}
    /\ facet_i = 1

\* one pass of the loop over the facets of the page; the value stored is the
\* facet's content, named here by the facet's position on the page
StoreFacet ==
    /\ facet_i \in DOMAIN page_titles
    /\ data_dict' = SetItem(data_dict, KeyFor(page_titles[facet_i], data_dict),
                            facet_i)
    /\ facet_i' = facet_i + 1
    /\ UNCHANGED <<page_titles, orchestration, screenshots, facets, engines,
                   stitching, parsing, editing>>

NextGetData == StoreFacet

SpecGetData == InitGetData /\ [][NextGetData]_vars

(* ---------------------------------------------------------------------- *)
(* QANCODE._parse_arguments                                                *)
(* ---------------------------------------------------------------------- *)

\* find_differences' lists of (item_type, click_path) tuples, two entries
\* standing for the long list
actions ==
    <<<<"/", None>>, <<"/experiments/ENCSR000CWD/", None>>>>

admin_only_actions == <<<<"/biosamples/ENCBS681LAC/", None>>>>

public_only_actions == <<<<"/experiments/?status=deleted", None>>>>

\* lists of up to n elements of S, the empty list included
ListsUpTo(S, n) == {<<>>} \cup SeqsUpTo(S, n)

\* the calls: action_tuples given (the other arguments at their defaults),
\* or item_types a keyword, or item_types and click_paths two lists
ParseCalls ==
    {[tuples_given |-> TRUE, action_tuples |-> t, keyword |-> "all",
      item_types |-> <<>>, click_paths |-> <<None>>] :
        t \in ListsUpTo(Pages \X ClickPaths, MaxArguments - 1)}
    \cup
    {[tuples_given |-> FALSE, action_tuples |-> <<>>, keyword |-> k,
      item_types |-> <<>>, click_paths |-> <<None>>] :
        k \in {"all", "admin", "public"}}
    \cup
    {[tuples_given |-> FALSE, action_tuples |-> <<>>, keyword |-> "list",
      item_types |-> i, click_paths |-> c] :
        i \in ListsUpTo(Pages, MaxArguments),
        c \in ListsUpTo(ClickPaths, MaxArguments)}

\* _expand_action_list(actions)
expand_action_list(tuples) ==
    [item_types |-> [i \in DOMAIN tuples |-> tuples[i][1]],
     click_paths |-> [i \in DOMAIN tuples |-> tuples[i][2]]]

ValueError == [raised |-> "ValueError"]

\* lines 1638-1646 without the final else: the lists are returned as given
parse_lists_Unchecked(given_types, given_paths) ==
    IF Len(given_types) = Len(given_paths)
    THEN [item_types |-> given_types, click_paths |-> given_paths]
    ELSE IF Len(given_paths) = 1
    THEN [item_types |-> given_types,
          click_paths |-> [i \in DOMAIN given_types |-> given_paths[1]]]
    ELSE [item_types |-> given_types, click_paths |-> given_paths]

\* lines 1638-1646: item_types and click_paths given as lists
parse_lists(given_types, given_paths) ==
    IF Len(given_types) = Len(given_paths)
    THEN [item_types |-> given_types, click_paths |-> given_paths]
    ELSE IF Len(given_paths) = 1
    THEN [item_types |-> given_types,
          click_paths |-> [i \in DOMAIN given_types |-> given_paths[1]]]
    ELSE ValueError

\* _parse_arguments: the item_types and click_paths it returns, or ValueError
parse_arguments(call) ==
    IF call.tuples_given THEN expand_action_list(call.action_tuples)
    ELSE IF call.keyword = "all" THEN expand_action_list(actions)
    ELSE IF call.keyword = "admin" THEN expand_action_list(admin_only_actions)
    ELSE IF call.keyword = "public"
    THEN expand_action_list(public_only_actions)
    ELSE parse_lists(call.item_types, call.click_paths)

InitParse ==
    /\ NoRun
    /\ NoEditing
    /\ NoScreenShots
    /\ NoFacets
    /\ NoEngines
    /\ NoStitching
    /\ NoTitling
    /\ parse_args \in ParseCalls
    /\ parse_result = <<>>
    /\ parse_pairs = <<>>
    /\ parse_pc = "called"

\* browsers, users, item_types, click_paths = self._parse_arguments(...)
ParseArguments ==
    /\ parse_pc = "called"
    /\ parse_result' = parse_arguments(parse_args)
    /\ parse_pc' = IF parse_arguments(parse_args) = ValueError
                   THEN "raised" ELSE "returned"
    /\ UNCHANGED <<parse_args, parse_pairs, orchestration, screenshots,
                   facets, engines, stitching, titling, editing>>

\* for item_type, click_path in zip(self.item_types, self.click_paths)
PairPages ==
    /\ parse_pc = "returned"
    /\ parse_pairs' = Zip(parse_result.item_types, parse_result.click_paths)
    /\ parse_pc' = "paired"
    /\ UNCHANGED <<parse_args, parse_result, orchestration, screenshots,
                   facets, engines, stitching, titling, editing>>

NextParse == ParseArguments \/ PairPages

SpecParse == InitParse /\ [][NextParse]_vars

(* ---------------------------------------------------------------------- *)
(* QANCODE.check_requests and QANCODE.check_tools                          *)
(* ---------------------------------------------------------------------- *)

\* 'encodeproject.org', character by character
ProductionHost ==
    <<"e", "n", "c", "o", "d", "e", "p", "r", "o", "j", "e", "c", "t", ".",
      "o", "r", "g">>

\* https://encodeproject.org
ProductionUrl ==
    <<"h", "t", "t", "p", "s", ":", "/", "/", "e", "n", "c", "o", "d", "e",
      "p", "r", "o", "j", "e", "c", "t", ".", "o", "r", "g">>

\* https://www.encodeproject.org/
ProductionWwwUrl ==
    <<"h", "t", "t", "p", "s", ":", "/", "/", "w", "w", "w", ".", "e", "n",
      "c", "o", "d", "e", "p", "r", "o", "j", "e", "c", "t", ".", "o", "r",
      "g", "/">>

\* https://test.encodedcc.org
TestUrl ==
    <<"h", "t", "t", "p", "s", ":", "/", "/", "t", "e", "s", "t", ".", "e",
      "n", "c", "o", "d", "e", "d", "c", "c", ".", "o", "r", "g">>

\* https://v79rc1.demo.encodedcc.org
DemoUrl ==
    <<"h", "t", "t", "p", "s", ":", "/", "/", "v", "7", "9", "r", "c", "1",
      ".", "d", "e", "m", "o", ".", "e", "n", "c", "o", "d", "e", "d", "c",
      "c", ".", "o", "r", "g">>

\* http://localhost:6543
LocalUrl ==
    <<"h", "t", "t", "p", ":", "/", "/", "l", "o", "c", "a", "l", "h", "o",
      "s", "t", ":", "6", "5", "4", "3">>

\* the rc_url values a QANCODE object is built with
RcUrls == {ProductionUrl, ProductionWwwUrl, TestUrl, DemoUrl, LocalUrl}

\* needle in text, for two Python strings
Contains(text, needle) ==
    \E i \in 0..(Len(text) - Len(needle)) :
        SubSeq(text, i + 1, i + Len(needle)) = needle

\* the guard comparing the whole url with the default prod_url
block_production_edit_WholeUrl(url) == url = ProductionUrl

\* _block_production_edit(url) raises SystemError('No editing production.')
block_production_edit(url) == Contains(url, ProductionHost)

\* lab_submitter = USERS[2]
lab_submitter == "encoded.test2@gmail.com"

admin == "admin"

\* check_requests' action_dict in the order of its keys; payloads is the
\* number of payloads of the item
action_dict ==
    <<[method |-> "patch", suburl |-> "/experiments/ENCSR000CUS/",
       payloads |-> 1,
       users |-> <<<<"Public", 400>>, <<lab_submitter, 403>>>>],
      [method |-> "patch", suburl |-> "/experiments/ENCSR000CUS/",
       payloads |-> 8, users |-> <<<<admin, 200>>>>],
      [method |-> "patch", suburl |-> "/experiments/ENCSR035DLJ/",
       payloads |-> 2, users |-> <<<<admin, 200>>>>],
      [method |-> "patch",
       suburl |-> "35f91f16-dcef-4ab2-90bd-3928b0db9a60",
       payloads |-> 1, users |-> <<<<admin, 200>>>>],
      [method |-> "patch", suburl |-> "/files/ENCFF002BYE/",
       payloads |-> 4, users |-> <<<<admin, 200>>>>],
      [method |-> "patch",
       suburl |-> "4dc1fbd3-6692-42fa-b710-03eaba9263c1",
       payloads |-> 1, users |-> <<<<admin, 200>>>>],
      [method |-> "post", suburl |-> "/experiments/", payloads |-> 1,
       users |-> <<<<"Public", 400>>, <<lab_submitter, 201>>,
                   <<admin, 201>>>>],
      [method |-> "get", suburl |-> "/experiments/ENCSR082IHY/",
       payloads |-> 1,
       users |-> <<<<"Public", 403>>, <<lab_submitter, 403>>,
                   <<admin, 200>>>>],
      [method |-> "get", suburl |-> "/experiments/ENCSR000CUS",
       payloads |-> 1,
       users |-> <<<<"Public", 200>>, <<lab_submitter, 200>>,
                   <<admin, 200>>>>]>>

RECURSIVE Concat(_)
Concat(seqs) ==
    IF seqs = <<>> THEN <<>> ELSE Head(seqs) \o Concat(Tail(seqs))

\* for user, status_code in item[2]: for payload in item[1]
RequestsOf(item) ==
    Concat([u \in DOMAIN item.users |->
               [k \in 1..item.payloads |->
                   [method |-> item.method, suburl |-> item.suburl,
                    user |-> item.users[u][1]]]])

\* the requests of check_requests, in the order they are sent
RequestPlan ==
    Concat([i \in DOMAIN action_dict |-> RequestsOf(action_dict[i])])

\* check_tools' tools
tools ==
    <<"ENCODE_get_fields.py", "ENCODE_patch_set.py", "ENCODE_release.py",
      "ENCODE_submit_files.py">>

\* the host: the users ~/qa_credentials.json holds, and whether
\* ~/keypairs.json can be read and has a 'prod' entry
Hosts(o) ==
    IF o = "check_requests"
    THEN {[stored |-> k, keypairs |-> TRUE] :
              k \in SUBSET {lab_submitter, admin}}
    ELSE {[stored |-> {}, keypairs |-> k] : k \in BOOLEAN}

InitEdit ==
    /\ NoRun
    /\ NoScreenShots
    /\ NoFacets
    /\ NoEngines
    /\ NoStitching
    /\ NoTitling
    /\ NoParsing
    /\ edit_op \in {"check_requests", "check_tools"}
    /\ edit_rc_url \in RcUrls
    /\ edit_env \in Hosts(edit_op)
    /\ effects = <<>>
    /\ edit_i = 1
    /\ edit_pc = "called"

\* url = self.rc_url; self._block_production_edit(url)
BlockProductionEdit ==
    /\ edit_pc = "called"
    /\ edit_pc' = IF block_production_edit(edit_rc_url) THEN "SystemError"
                  ELSE IF edit_op = "check_tools" THEN "keypairs"
                  ELSE "requests"
    /\ UNCHANGED <<edit_op, edit_rc_url, edit_env, effects, edit_i,
                   orchestration, screenshots, facets, engines, stitching,
                   titling, parsing>>

\* one pass of check_requests' innermost loop: _get_auth_credentials raises
\* ValueError for a user the credentials file does not hold, else the request
\* is sent and its status code printed
SendRequest ==
    /\ edit_pc = "requests"
    /\ IF edit_i > Len(RequestPlan)
       THEN /\ edit_pc' = "done"
            /\ UNCHANGED <<effects, edit_i>>
       ELSE IF RequestPlan[edit_i].user \notin edit_env.stored \cup {"Public"}
       THEN /\ edit_pc' = "ValueError"
            /\ UNCHANGED <<effects, edit_i>>
       ELSE /\ effects' = Append(effects,
                                 [kind |-> "request", server |-> edit_rc_url,
                                  what |-> RequestPlan[edit_i].method])
            /\ edit_i' = edit_i + 1
            /\ UNCHANGED edit_pc
    /\ UNCHANGED <<edit_op, edit_rc_url, edit_env, orchestration, screenshots,
                   facets, engines, stitching, titling, parsing>>

\* self._add_rc_to_keypairs(url): the file is rewritten with the url as
\* current_rc, or the exception of reading it is raised again
AddRcToKeypairs ==
    /\ edit_pc = "keypairs"
    /\ IF edit_env.keypairs
       THEN /\ effects' = Append(effects,
                                 [kind |-> "keypairs", server |-> edit_rc_url,
                                  what |-> "current_rc"])
            /\ edit_pc' = "tools"
       ELSE /\ edit_pc' = "Exception"
            /\ UNCHANGED effects
    /\ UNCHANGED <<edit_op, edit_rc_url, edit_env, edit_i, orchestration,
                   screenshots, facets, engines, stitching, titling, parsing>>

\* one pass of check_tools' loop: subprocess.check_output runs the tool, and
\* raises CalledProcessError if it exits with a non-zero status
RunTool ==
    /\ edit_pc = "tools"
    /\ IF edit_i > Len(tools)
       THEN /\ edit_pc' = "done"
            /\ UNCHANGED <<effects, edit_i>>
       ELSE /\ effects' = Append(effects,
                                 [kind |-> "subprocess", server |-> edit_rc_url,
                                  what |-> tools[edit_i]])
            /\ \/ /\ edit_i' = edit_i + 1
                  /\ UNCHANGED edit_pc
               \/ /\ edit_pc' = "CalledProcessError"
                  /\ UNCHANGED edit_i
    /\ UNCHANGED <<edit_op, edit_rc_url, edit_env, orchestration, screenshots,
                   facets, engines, stitching, titling, parsing>>

NextEdit ==
    \/ BlockProductionEdit
    \/ SendRequest
    \/ AddRcToKeypairs
    \/ RunTool

SpecEdit == InitEdit /\ [][NextEdit]_vars

(* ---------------------------------------------------------------------- *)
(* Properties                                                              *)
(* ---------------------------------------------------------------------- *)

\* the coordinates of users x browsers x urls x (item_type, click_path) pairs
Grid ==
    {<<browsers[b], urls[l], users[u], item_types[p], click_paths[p]>> :
        b \in DOMAIN browsers, l \in DOMAIN urls, u \in DOMAIN users,
        p \in 1..Min(Len(item_types), Len(click_paths))}

RecordedCoordinates == {Coordinate(all_data[i]) : i \in DOMAIN all_data}

Occurrences(s, x) == Cardinality({i \in DOMAIN s : s[i] = x})

RecordsOf(c) == Cardinality({i \in DOMAIN all_data : Coordinate(all_data[i]) = c})

CoordinateAt(pos) == Coordinate(Record(pos[2], pos[3], pos[1], pos[4], None))

\* run_tasks has returned to the operation that called it
RunTasksCompleted ==
    pc \in {"tasks_done", "url_comparison", "browser_comparison", "finished",
            "crashed"}

\* an attempt of the coordinate at the current position is under way
InAttempt ==
    pc \in {"new_driver", "sign_in", "capture", "prepare", "screenshot",
            "finally", "returned"}

\* a user that is not 'Public' and has no stored credential
Stranger(u) == u # "Public" /\ u \notin StoredCredentials

\* C1: every record of all_data carries a coordinate of the grid, and once
\* run_tasks has completed without any coordinate exhausting its retries the
\* recorded coordinates are exactly the grid.
C1_GridCoverage ==
    /\ RecordedCoordinates \subseteq Grid
    /\ (RunTasksCompleted /\ warnings = <<>>) => RecordedCoordinates = Grid

C1_Witness ==
    /\ pc = "tasks_done"
    /\ warnings = <<>>
    /\ Cardinality(Grid) = 4
    /\ Len(all_data) = 4

\* C2: a coordinate is never attempted more than 5 times; the 'Task
\* incomplete' warning for a position is emitted only after its fifth failed
\* attempt and only once; when the orchestrator leaves a position whose
\* attempts all failed, it made exactly 5 attempts, appended no record for
\* it, and goes on to the next coordinate.
C2_RetryExactlyFive ==
    /\ attempts <= RetryBudget
    /\ \A i \in DOMAIN warnings :
        /\ Occurrences(warnings, warnings[i]) = 1
        /\ Occurrences(recorded, warnings[i]) = 0
        /\ warnings[i] = position => (attempts = RetryBudget /\ ~InAttempt
                                      /\ pc # "loop")
    /\ (pc = "advance" /\ ~task_completed) =>
        /\ attempts = RetryBudget
        /\ Occurrences(warnings, position) = 1
        /\ ENABLED Advance

C2_Witness ==
    /\ Len(warnings) = 1
    /\ warnings[1] # position
    /\ pc = "new_driver"
    /\ all_data = <<>>

\* C3: all_data holds exactly one record for each coordinate that had a
\* successful attempt and none for any other, and no attempt of a coordinate
\* is dispatched once it has a record.
C3_OneRecordPerCoordinate ==
    /\ \A c \in Grid : RecordsOf(c) <= 1
    /\ RunTasksCompleted =>
        \A c \in Grid :
            RecordsOf(c) =
                IF \E i \in DOMAIN recorded : CoordinateAt(recorded[i]) = c
                THEN 1 ELSE 0
    /\ InAttempt => RecordsOf(CoordinateAt(position)) = 0

\* C4: when run_task exits, by returning or by an exception, every browser
\* session started during the attempt has been quit exactly once.
C4_SessionQuitOnce ==
    pc \in {"returned", "aborted"} => quits = started

\* C5: an error raised by driver.quit() never leaves run_task.
C5_QuitErrorSwallowed ==
    quit_error => (pc # "aborted" /\ propagated # "quit_error")

\* C6: once an interruption signal has been raised during an attempt, it is
\* on its way out of run_task or has left it: nothing else is done.
C6_InterruptPropagates ==
    interrupted => \/ pc = "finally" /\ exc = "interrupt"
                   \/ pc = "aborted"

\* C7: for a user other than 'Public', the capture task runs and the attempt
\* completes only if the signed-in element was observed.
C7_UnconfirmedSignInFails ==
    (/\ users[ui] # "Public"
     /\ \/ pc \in {"capture", "prepare", "screenshot"}
        \/ pc \in {"finally", "returned"} /\ task_completed)
    => confirmed

\* C8: an exception other than an interruption signal raised by session
\* acquisition, sign-in or capture never leaves run_task; the attempt ends
\* with task_completed False and no data, no record is appended for it, and
\* run_tasks goes on with a retry or with the next coordinate.
C8_ExceptionsSwallowed ==
    /\ propagated # "error"
    /\ step_error =>
        /\ pc \in {"finally", "returned", "loop", "advance", "aborted",
                   "tasks_done", "url_comparison", "browser_comparison",
                   "finished", "crashed"}
        /\ ~task_completed
        /\ data = None
        /\ Occurrences(recorded, position) = 0
        /\ pc = "aborted" => (interrupted \/ quit_error)
        /\ pc = "returned" => ENABLED Returned

C8_Witness ==
    /\ step_error
    /\ pc = "loop"
    /\ attempts = 1
    /\ started = 1
    /\ quits = 1

\* C9 as stated: a coordinate of a user without stored credential is
\* attempted once.
C9_UnknownUserOneAttempt ==
    Stranger(users[ui]) => attempts <= 1

\* C9 as amended: the 'Unknown user' error never leaves run_task and the
\* coordinate is retried like any failing one: no capture runs and no record
\* is appended for such a user, and when the orchestrator leaves the
\* coordinate it has made 5 attempts and emitted the warning.
C9_UnknownUserRetried ==
    /\ \A i \in DOMAIN all_data : ~Stranger(all_data[i].user)
    /\ Stranger(users[ui]) =>
        /\ pc \notin {"capture", "prepare", "screenshot"}
        /\ propagated # "error"
        /\ InAttempt => ~task_completed
        /\ pc = "advance" => (attempts = RetryBudget
                              /\ Occurrences(warnings, position) = 1)

C9_Witness ==
    /\ Stranger(users[ui])
    /\ pc = "advance"
    /\ attempts = RetryBudget
    /\ started = 1

\* C10: a coordinate abandoned after exhausting its retries does not stop
\* the comparison phase of compare_facets or find_differences.
C10_AbandonedNeverFatal ==
    warnings # <<>> => pc # "crashed"

\* the two selections of the url comparison job k have the same length
EqualCounts(k) ==
    Len(UrlData(prod_url, UrlJob(k))) = Len(UrlData(rc_url, UrlJob(k)))

\* C11: constructing the cross-target comparison of a (browser, user,
\* item_type, click_path) fails with an AssertionError exactly when the
\* number of records selected for the first target differs from the number
\* selected for the second: every job the loop has gone past, and every
\* comparison that ran, had equal counts, and a job whose constructor
\* proceeded did not end in an AssertionError.
C11_UnequalCountsFail ==
    /\ \A i \in DOMAIN compared :
          compared[i][1] = "url" => EqualCounts(compared[i][2])
    /\ pc = "url_comparison" =>
          \A k \in 1..Min(ci - 1, UrlJobCount) : EqualCounts(k)
    /\ (pc = "crashed" /\ propagated \in {"AssertionError", "IndexError"}) =>
          (propagated = "AssertionError" <=> ~EqualCounts(ci))

\* a comparison with equal counts ran, then the next one met unequal counts
C11_Witness ==
    /\ pc = "crashed"
    /\ propagated = "AssertionError"
    /\ ~EqualCounts(ci)
    /\ Len(compared) >= 1

\* C12: compare_data leaves its inputs as get_data produced them: after the
\* call both mappings have the titles and the lists they were captured with.
C12_InputsUntouched ==
    facet_pc = "compared" =>
        /\ prod_facets = prod_captured
        /\ rc_facets = rc_captured

\* C13: a screenshot comparison gives the verdict and the distance metric
\* that the comparison of the same two images in the other order gives.
C13_ScreenShotsSymmetric ==
    image_pc = "compared" =>
        /\ diff_found = ~is_same(Difference(shot_two, shot_one))
        /\ diff_distance_metric = ArraySum(Difference(shot_two, shot_one))

\* the rows the longer of two images has below the last row of the shorter
ExtraRows(one, two) ==
    IF Len(one) > Len(two) THEN SubSeq(one, Len(two) + 1, Len(one))
    ELSE SubSeq(two, Len(one) + 1, Len(two))

\* C14: when the two images differ in height and the extra rows of the longer
\* one hold pixels whose values sum to more than the threshold, the verdict is
\* MISMATCH, whichever of the two is the shorter.
C14_PaddedRegionCounts ==
    (/\ image_pc = "compared"
     /\ Len(shot_one) # Len(shot_two)
     /\ ArraySum(ExtraRows(shot_one, shot_two)) > Threshold)
        => diff_found = TRUE

\* the per-pixel absolute difference of two arrays of one size
AbsoluteDifference(one, two) ==
    [i \in DOMAIN one |->
        [c \in DOMAIN one[i] |->
            [k \in 1..3 |->
                IF one[i][c][k] > two[i][c][k]
                THEN one[i][c][k] - two[i][c][k]
                ELSE two[i][c][k] - one[i][c][k]]]]

\* C15: the verdict is MATCH exactly when no pixel differs or the summed
\* per-pixel absolute difference is below 50000 (a sum of exactly 50000 is
\* MISMATCH), and identical images give MATCH with metric 0.
C15_MatchBelowThreshold ==
    image_pc = "compared" =>
        /\ diff_found = FALSE <=>
             \/ image_one = image_two
             \/ ArraySum(AbsoluteDifference(image_one, image_two)) < Threshold
        /\ shot_one = shot_two =>
             (diff_found = FALSE /\ diff_distance_metric = 0)

\* C16: after pad_if_different_shape both images have as many rows as the
\* taller of the two had, every row has the width and the three channels its
\* image had, every original row is unchanged at its index, and the rows
\* added are zero rows at the bottom of the shorter image; these are the
\* images compute_image_difference goes on with.
C16_PadKeepsShape ==
    image_pc \in {"compared", "failed"} =>
        LET padded == pad_if_different_shape(shot_one, shot_two)
            rows == IF Len(shot_one) > Len(shot_two) THEN Len(shot_one)
                    ELSE Len(shot_two)
            Kept(image, original) ==
                /\ Len(image) = rows
                /\ \A i \in 1..Len(original) : image[i] = original[i]
                /\ \A i \in (Len(original) + 1)..rows :
                      /\ Len(image[i]) = Len(original[1])
                      /\ \A c \in DOMAIN image[i] : image[i][c] = <<0, 0, 0>>
        IN /\ Kept(padded[1], shot_one)
           /\ Kept(padded[2], shot_two)
           /\ image_one = padded[1]
           /\ image_two = padded[2]

\* a shorter first image with a coloured pixel was padded and compared
C16_Witness ==
    /\ image_pc = "compared"
    /\ Len(shot_one) < Len(shot_two)
    /\ Len(image_one) = Len(shot_two)
    /\ image_one # shot_one
    /\ \E c \in DOMAIN shot_one[1] : shot_one[1][c] # <<0, 0, 0>>

\* the titles a report names in its lines of one kind ('rc_missing' or
\* 'production_missing')
MissingTitles(lines, kind) ==
    UNION {lines[i].titles : i \in {j \in DOMAIN lines : lines[j].kind = kind}}

\* the lines of the report printed in the loop pass of one title
LinesOf(title) ==
    SelectSeq(report,
              LAMBDA l : /\ l.kind \in {"title", "count", "prod", "rc", "match"}
                         /\ l.title = title)

OnlyInProd == DOMAIN prod_captured \ DOMAIN rc_captured

OnlyInRc == DOMAIN rc_captured \ DOMAIN prod_captured

OneSided(title, entries, side) ==
    IF entries = <<>>
    THEN <<[kind |-> "title", title |-> title, upper |-> FALSE],
           [kind |-> "match", title |-> title]>>
    ELSE <<[kind |-> "title", title |-> title, upper |-> TRUE],
           [kind |-> side, title |-> title,
            entries |-> SortedEntries(Range(entries))]>>

C18_MatchIffSameSet ==
    facet_pc = "compared" =>
        \A t \in DOMAIN prod_captured \cap DOMAIN rc_captured :
            ([kind |-> "match", title |-> t] \in Range(LinesOf(t)))
                <=> Range(prod_captured[t]) = Range(rc_captured[t])

\* the two sides list the same two pairs in opposite orders: MATCH
C18_Witness ==
    /\ facet_pc = "compared"
    /\ "Status" \in DOMAIN prod_captured \cap DOMAIN rc_captured
    /\ Len(prod_captured["Status"]) = 2
    /\ prod_captured["Status"][1] # prod_captured["Status"][2]
    /\ rc_captured["Status"] =
          <<prod_captured["Status"][2], prod_captured["Status"][1]>>
    /\ [kind |-> "match", title |-> "Status"] \in Range(report)

\* C19: every count-vs-count line 'label: x (prod), y (rc)' of a title pairs
\* entries of one label: (label, x) is in the first side's list of the title
\* and (label, y) in the second side's; archived=2 against archived=3 gives
\* the single line 'archived: 2 (prod), 3 (rc)'.
C19_CountLinesSameLabel ==
    facet_pc = "compared" =>
        /\ \A i \in DOMAIN report :
              report[i].kind = "count" =>
                  /\ <<report[i].label, report[i].prod>>
                        \in Range(Item(prod_captured, report[i].title))
                  /\ <<report[i].label, report[i].rc>>
                        \in Range(Item(rc_captured, report[i].title))
        /\ (/\ prod_captured = [t \in {"Status"} |-> <<<<"archived", "2">>>>]
            /\ rc_captured = [t \in {"Status"} |-> <<<<"archived", "3">>>>])
              => report = <<[kind |-> "title", title |-> "Status",
                             upper |-> TRUE],
                            [kind |-> "count", title |-> "Status",
                             label |-> "archived", prod |-> "2",
                             rc |-> "3"]>>

\* C20: the titles compare(A, B) reports as present in the first side only are
\* the titles compare(B, A) reports as present in the second side only, and
\* the same with the sides exchanged.
C20_MissingTitlesSymmetric ==
    facet_pc = "compared" =>
        /\ MissingTitles(report, "rc_missing")
             = MissingTitles(Report(rc_captured, prod_captured),
                             "production_missing")
        /\ MissingTitles(report, "production_missing")
             = MissingTitles(Report(rc_captured, prod_captured), "rc_missing")

\* each side has a title the other lacks and one title is common
C20_Witness ==
    /\ facet_pc = "compared"
    /\ MissingTitles(report, "rc_missing") # {}
    /\ MissingTitles(report, "production_missing")
         # MissingTitles(report, "rc_missing")
    /\ \E i \in DOMAIN report : report[i].kind = "rc_missing"

\* what compare_data prints for titles that all match
AllMatch(titles) ==
    [i \in 1..(2 * Len(titles)) |->
        IF i % 2 = 1
        THEN [kind |-> "title", title |-> titles[(i + 1) \div 2],
              upper |-> FALSE]
        ELSE [kind |-> "match", title |-> titles[i \div 2]]]

\* C21: comparing a mapping with itself reports no differing keys, and for
\* every title of the mapping the title and MATCH, and nothing else.
C21_CompareReflexive ==
    (facet_pc = "compared" /\ prod_captured = rc_captured) =>
        report = AllMatch(SortedTitles(DOMAIN prod_captured))

\* a mapping with both titles and three entries was compared with itself
C21_Witness ==
    /\ facet_pc = "compared"
    /\ prod_captured = rc_captured
    /\ DOMAIN prod_captured = {"Lab", "Status"}
    /\ Len(prod_captured["Status"]) = 3
    /\ Len(report) = 4

\* the entries a requested browser holds under a title in the records that a
\* cross-browser comparison of a url selects; no record or no such title: none
Holds(browser, url, title) ==
    {d \in Range(url_data(facet_records, url)) :
        d.browser = browser /\ title \in DOMAIN d.data}

HeldEntries(browser, url, title) ==
    UNION {Range(d.data[title]) : d \in Holds(browser, url, title)}

\* two lists of browsers that are disjoint, non-empty and together name every
\* requested browser once
NamesEveryBrowserOnce(with, without) ==
    /\ with # {} /\ without # {}
    /\ with \cap without = {}
    /\ with \cup without = Range(RequestedBrowsers)

\* C22: in the cross-browser comparison of a url, every title and every entry
\* of a shared title that not all requested browsers hold is flagged with an
\* 'In browsers' and a 'Not in browsers' list that are disjoint, non-empty and
\* together name every requested browser exactly once, and a title is
\* reported MATCH exactly when all requested browsers hold the same set of
\* entries for it.
C22_BrowsersFlagged ==
    \A k \in DOMAIN browser_reports :
        LET lines == browser_reports[k]
            requested == Range(RequestedBrowsers)
            Shared(t) == \A b \in requested : Holds(b, urls[k], t) # {}
            Known(t) == \E b \in requested : Holds(b, urls[k], t) # {}
            Unshared(t) ==
                {e \in Entries :
                    /\ \E b \in requested : e \in HeldEntries(b, urls[k], t)
                    /\ \E b \in requested :
                          e \notin HeldEntries(b, urls[k], t)}
        IN \A t \in Range(TitleOrder) :
              /\ (Known(t) /\ ~Shared(t)) =>
                    \E i, j \in DOMAIN lines :
                       /\ lines[i].kind = "key_in_browsers"
                       /\ lines[i].title = t
                       /\ lines[j].kind = "key_not_in_browsers"
                       /\ lines[j].title = t
                       /\ NamesEveryBrowserOnce(lines[i].browsers,
                                                lines[j].browsers)
              /\ Shared(t) =>
                    \A e \in Unshared(t) :
                       \E i, j \in DOMAIN lines :
                          /\ lines[i].kind = "data_in_browsers"
                          /\ lines[i].title = t /\ lines[i].entry = e
                          /\ lines[j].kind = "data_not_in_browsers"
                          /\ lines[j].title = t /\ lines[j].entry = e
                          /\ Distinct(lines[i].browsers)
                          /\ Distinct(lines[j].browsers)
                          /\ NamesEveryBrowserOnce(Range(lines[i].browsers),
                                                   Range(lines[j].browsers))
              /\ ([kind |-> "match", title |-> t] \in Range(lines))
                    <=> (Shared(t) /\ Unshared(t) = {})

\* C26: what a cross-browser comparison prints is what it prints for the
\* records as run_tasks returned them, whether or not the cross-target
\* comparisons ran before it.
C26_FamiliesIndependent ==
    \A k \in DOMAIN browser_reports :
        browser_reports[k] = BrowserReport(url_data(captured_records, urls[k]))

\* the slices of the stitched image show the rows first..last of the page,
\* each once and in order
Tiles(slices, first, last) ==
    /\ slices # <<>>
    /\ slices[1][1] = first
    /\ slices[Len(slices)][2] = last
    /\ \A i \in DOMAIN slices : slices[i][1] <= slices[i][2]
    /\ \A i \in 1..(Len(slices) - 1) : slices[i + 1][1] = slices[i][2] + 1

\* C23: for a page taller than the viewport the stitched image shows every
\* row of the page exactly once: it has 2 x scrollHeight rows, for every
\* clientHeight and scrollHeight.
C23_StitchedShowsEveryRowOnce ==
    (stitch_pc = "stitched" /\ scroll_height > client_height) =>
        Tiles(image_slices, 1, 2 * scroll_height)

\* C24: the stitching loop terminates after finitely many captures, for
\* every clientHeight and scrollHeight.
C24_StitchTerminates == <>(stitch_pc \in {"stitched", "raised"})

\* C25: title disambiguation never loses a facet: once get_data has stored
\* the facets of a page, the mapping has as many keys as there are facets and
\* every facet's data is still in it.
C25_NoFacetLost ==
    facet_i > Len(page_titles) =>
        /\ Cardinality(Keys(data_dict)) = Len(page_titles)
        /\ \A i \in DOMAIN page_titles : \E item \in data_dict : item[2] = i

\* C27: the backoff sleep occurs only between two attempts of the same
\* coordinate: when run_tasks leaves a coordinate that was attempted k
\* times, recorded or abandoned, it has slept exactly k - 1 times for it.
C27_SleepsBetweenAttempts ==
    pc = "advance" => sleeps = attempts - 1

\* the pages the caller asked for
RequestedPages ==
    IF parse_args.tuples_given
    THEN [i \in DOMAIN parse_args.action_tuples |->
              parse_args.action_tuples[i][1]]
    ELSE IF parse_args.keyword = "all"
    THEN [i \in DOMAIN actions |-> actions[i][1]]
    ELSE IF parse_args.keyword = "admin"
    THEN [i \in DOMAIN admin_only_actions |-> admin_only_actions[i][1]]
    ELSE IF parse_args.keyword = "public"
    THEN [i \in DOMAIN public_only_actions |-> public_only_actions[i][1]]
    ELSE parse_args.item_types

\* C28: _parse_arguments either raises ValueError or returns item_types and
\* click_paths of equal length, a single click_path being given to every
\* item_type of the caller, so that the pairing of pages with click paths
\* dispatches every requested page and drops none.
C28_EqualLengthsOrValueError ==
    /\ parse_pc \in {"returned", "paired"} =>
        /\ Len(parse_result.item_types) = Len(parse_result.click_paths)
        /\ parse_result.item_types = RequestedPages
        /\ (/\ ~parse_args.tuples_given
            /\ parse_args.keyword = "list"
            /\ Len(parse_args.click_paths) = 1) =>
               \A i \in DOMAIN parse_result.click_paths :
                   parse_result.click_paths[i] = parse_args.click_paths[1]
    /\ parse_pc = "paired" =>
        [i \in DOMAIN parse_pairs |-> parse_pairs[i][1]] = RequestedPages
    /\ parse_pc = "raised" => parse_result = ValueError

\* a single click_path has been broadcast to two pages, which are paired
C28_Witness ==
    /\ parse_pc = "paired"
    /\ parse_args.keyword = "list"
    /\ Len(parse_args.click_paths) = 1
    /\ Len(parse_args.item_types) = 2
    /\ Len(parse_pairs) = 2

\* position x comes before position y in the nested loops of run_tasks:
\* user, then browser, then url, then page
Before(x, y) ==
    \E k \in 1..4 :
        /\ x[k] < y[k]
        /\ \A j \in 1..(k - 1) : x[j] = y[j]

\* a step leaves all_data as it is or appends one record at its end
AppendsOne ==
    \/ all_data' = all_data
    \/ /\ Len(all_data') = Len(all_data) + 1
       /\ SubSeq(all_data', 1, Len(all_data)) = all_data

\* the records are those of the positions recorded, in dispatch order
InDispatchOrder ==
    /\ Len(recorded) = Len(all_data)
    /\ \A i \in DOMAIN all_data :
           Coordinate(all_data[i]) = CoordinateAt(recorded[i])
    /\ \A i, j \in DOMAIN recorded : i < j => Before(recorded[i], recorded[j])

\* C29: the result set is append-only during run_tasks: every step leaves
\* all_data unchanged or appends exactly one record at the end, and the
\* records appear in dispatch order (user, then browser, then url, then page).
C29_AppendOnly == [][AppendsOne]_vars /\ [](InDispatchOrder)

\* the second page on the first url and the first page on the second url
\* have both been recorded
C29_Witness ==
    /\ Len(all_data) >= 2
    /\ \E i, j \in DOMAIN recorded :
        /\ recorded[i][3] < recorded[j][3]
        /\ recorded[i][4] > recorded[j][4]

\* C30: the editing checks never touch production: when rc_url contains
\* 'encodeproject.org', check_requests and check_tools raise before any HTTP
\* request is sent, before the keypairs file is rewritten and before any
\* tool subprocess is started.
C30_ProductionNeverEdited ==
    (edit_pc # "idle" /\ Contains(edit_rc_url, ProductionHost)) =>
        /\ effects = <<>>
        /\ edit_pc \in {"called", "SystemError"}

\* a check called with https://www.encodeproject.org/ has raised SystemError
C30_Witness ==
    /\ edit_pc = "SystemError"
    /\ edit_rc_url = ProductionWwwUrl

====
